---- MODULE Spec2Model ----
(***************************************************************************)
(* Model of the device-metrics simulator (device_simulator.py) and of the  *)
(* dashboard's time-bucketed loader (app.py).                              *)
(*                                                                         *)
(* Real-valued quantities (battery, drain, temperature, humidity) are      *)
(* fixed-point integers in thousandths: 15.0 % is 15000.  Calendar days    *)
(* are integers; date.isoformat() is injective and order preserving on     *)
(* them, so comparing the integers is comparing the ISO strings.           *)
(***************************************************************************)
EXTENDS Integers, Sequences, FiniteSets, TLC

VARIABLES
    file,        \* the CSV file at csv_path: [exists, columns, rows]
    today,       \* date.today() as a day number
    nops,        \* number of steps taken so far (operations and day changes)
    lastOp,      \* the last simulator operation: [op, ok]
    lastAppend,  \* the most recent append_today that returned: [day, devices, n]
    prevAppend,  \* the append_today that returned before lastAppend
    lastEnsure,  \* the ensure_csv that wrote the history: [wrote, days, devices, day, at]
    sBattery,    \* _derive_status: argument battery
    sErrors,     \* _derive_status: argument errors
    sResult,     \* _derive_status: returned value ("" before the call)
    proc,        \* dashboard process: "init", "serving" or "fatal"
    now,         \* time.time() in whole seconds
    initialDf,   \* _initial_df
    deviceIds,   \* DEVICE_IDS
    cache,       \* the lru_cache(maxsize=1) of _cached_load: [valid, key, value]
    nextId,      \* identity of the next DataFrame object created by a reload
    ncalls,      \* number of load_dataframe calls made so far
    lastCall,    \* the last load_dataframe call: [made, bucket, read, outcome, ret]
    prevCall,    \* the load_dataframe call before lastCall
    lastGood,    \* the table produced by the most recent load that passed validation
    readsInBucket, \* read_csv calls made by load_dataframe in the bucket of lastCall
    readAt,      \* when _initial_df and the cached table were read: [start, cached]
    lastAge,     \* seconds between the read of the table returned by lastCall and the call
    thr,         \* callback threads inside load_dataframe: thread -> [pc, bucket, ret]
    bucketReads, \* bucket -> read_csv calls made by the callback threads for it
    shown,       \* what the last dashboard callback returned: [cb, ok, df, source, ...]
    movieDf      \* Mini_Project_05: the module-level table df of the movie dashboard

simVars == <<today, nops, lastOp, lastAppend, prevAppend, lastEnsure>>
statusVars == <<sBattery, sErrors, sResult>>
loadVars == <<proc, now, initialDf, deviceIds, cache, nextId, ncalls,
              lastCall, prevCall, lastGood, readsInBucket, readAt, lastAge>>
threadVars == <<thr, bucketReads>>
viewVars == <<shown, movieDf>>
vars == <<file, today, nops, lastOp, lastAppend, prevAppend, lastEnsure,
          sBattery, sErrors, sResult,
          proc, now, initialDf, deviceIds, cache, nextId, ncalls,
          lastCall, prevCall, lastGood, readsInBucket, readAt, lastAge,
          thr, bucketReads, shown, movieDf>>

----------------------------------------------------------------------------
(* Bounds of the model *)

MaxDevices == 2
MaxHistoryDays == 21
MaxOps == 3
MaxErrors == 4
MaxProbeOffset == 10
MaxCalls == 4
MaxBucket == 2
MaxThreads == 2

----------------------------------------------------------------------------
(* Fixed-point helpers *)

Milli(x) == x * 1000

\* mutant: no floor at zero
NoFloor(x) == x

\* max(0, x)
Max0(x) == IF x > 0 THEN x ELSE 0

\* assignment of a non-negative float into an int64 array element: truncation
IntCast(x) == x \div 1000

\* round(x, 1) on a thousandths value: nearest tenth, ties to even
Round1(x) ==
    LET q == x \div 100
        r == x % 100
    IN  IF r < 50 THEN q * 100
        ELSE IF r > 50 THEN (q + 1) * 100
        ELSE IF q % 2 = 0 THEN q * 100 ELSE (q + 1) * 100

\* round(x, 2) on a thousandths value: nearest hundredth, ties to even
Round2(x) ==
    LET q == x \div 10
        r == x % 10
    IN  IF r < 5 THEN q * 10
        ELSE IF r > 5 THEN (q + 1) * 10
        ELSE IF q % 2 = 0 THEN q * 10 ELSE (q + 1) * 10

----------------------------------------------------------------------------
(* Schema and status derivation *)

COLUMNS == {"date", "device_id", "temperature_c", "humidity_pct",
            "battery_pct", "error_count", "status"}

STATUSES == {"OK", "WARN", "ERROR", "LOW_BATTERY"}

LowBatteryThreshold == 15
ErrorThreshold == 3
WarnThreshold == 1

\* mutant: the error thresholds are tested before the battery threshold
DeriveStatusErrorsFirst(battery, errors) ==
    IF errors >= ErrorThreshold THEN "ERROR"
    ELSE IF errors >= WarnThreshold THEN "WARN"
    ELSE IF battery < Milli(LowBatteryThreshold) THEN "LOW_BATTERY"
    ELSE "OK"

derive_status(battery, errors) ==
    IF battery < Milli(LowBatteryThreshold) THEN "LOW_BATTERY"
    ELSE IF errors >= ErrorThreshold THEN "ERROR"
    ELSE IF errors >= WarnThreshold THEN "WARN"
    ELSE "OK"

----------------------------------------------------------------------------
(* The random generator.  rng is unseeded, so each run draws an arbitrary  *)
(* stream; a stream is modelled as one table per distribution, read        *)
(* cyclically.  Every table entry lies in the range of its distribution.   *)

RngFast ==
    [ integers60  |-> <<61, 60>>,        \* rng.integers(60, 101)
      integers70  |-> <<70, 71>>,        \* rng.integers(70, 101)
      integers65  |-> <<65>>,            \* rng.integers(65, 101)
      uniformHist |-> <<2490>>,          \* rng.uniform(0.5, 2.5)
      uniformApp  |-> <<1030, 2990>>,    \* rng.uniform(0.8, 3.0)
      normalT     |-> <<24868>>,         \* rng.normal(25, 3)
      normalH     |-> <<46123>>,         \* rng.normal(45, 5)
      poisson     |-> <<0, 3>> ]         \* rng.poisson(...)

RngSlow ==
    [ integers60  |-> <<100, 80>>,
      integers70  |-> <<100>>,
      integers65  |-> <<100, 66>>,
      uniformHist |-> <<500, 1500>>,
      uniformApp  |-> <<800>>,
      normalT     |-> <<31004, 19996>>,
      normalH     |-> <<39500>>,
      poisson     |-> <<1, 0, 0>> ]

RngMixed ==
    [ integers60  |-> <<62, 75, 61>>,
      integers70  |-> <<85>>,
      integers65  |-> <<90>>,
      uniformHist |-> <<2490, 2001, 2300>>,
      uniformApp  |-> <<2030, 800, 2999>>,
      normalT     |-> <<25000>>,
      normalH     |-> <<45015, 52345>>,
      poisson     |-> <<0, 1, MaxErrors>> ]

RngStreams == {RngFast, RngSlow, RngMixed}

\* the k-th draw (k = 0, 1, ...) of one distribution
Draw(table, k) == table[(k % Len(table)) + 1]

----------------------------------------------------------------------------
(* DataFrame helpers *)

KeyLeq(a, b) ==
    \/ a.device_id < b.device_id
    \/ a.device_id = b.device_id /\ a.date <= b.date

KeyLess(a, b) ==
    \/ a.device_id < b.device_id
    \/ a.device_id = b.device_id /\ a.date < b.date

\* position of rows[i] after a stable sort: behind every smaller key, and behind
\* the equal keys that came before it
SortRank(rows, i) ==
    1 + Cardinality({j \in 1..Len(rows) :
                        \/ KeyLess(rows[j], rows[i])
                        \/ (j < i /\ KeyLeq(rows[j], rows[i]))})

\* mutant: the rows are left in the order they have
KeepOrder(rows) == rows

\* df.sort_values(["device_id", "date"]) (stable)
SortValues(rows) ==
    LET ranked == {<<SortRank(rows, i), i>> : i \in 1..Len(rows)}
    IN  [p \in 1..Len(rows) |-> rows[(CHOOSE pr \in ranked : pr[1] = p)[2]]]

RowsOf(rows, dev) == SelectSeq(rows, LAMBDA r : r.device_id = dev)

DevicesIn(rows) == {rows[i].device_id : i \in 1..Len(rows)}

Keys(rows) == {<<rows[i].device_id, rows[i].date>> : i \in 1..Len(rows)}

CountKey(rows, dev, day) ==
    Cardinality({i \in 1..Len(rows) : rows[i].device_id = dev /\ rows[i].date = day})

\* mutant: the fallback start is used for every device, seen or not
LastBatteryIgnoringStore(rows, dev, default) == Milli(default)

\* mutant: a device without a record starts from an empty battery
LastBatteryUnseenEmpty(rows, dev, default) ==
    LET mine == RowsOf(SortValues(rows), dev)
    IN  IF mine = <<>> THEN 0 ELSE mine[Len(mine)].battery_pct

\* sort_values(...).groupby("device_id").tail(1).set_index("device_id")["battery_pct"]
\* followed by last_battery.get(dev, default)
LastBattery(rows, dev, default) ==
    LET mine == RowsOf(SortValues(rows), dev)
    IN  IF mine = <<>> THEN Milli(default) ELSE mine[Len(mine)].battery_pct

NoFile == [exists |-> FALSE, columns |-> {}, rows |-> <<>>]

\* DataFrame.to_csv(csv_path, index=False); a frame built from no records has no columns
ToCsv(rows, columns) == [exists |-> TRUE, columns |-> columns, rows |-> rows]

----------------------------------------------------------------------------
(* generate_initial_history *)

\* starting_battery[dev-1] after the j-th generated day, an int64 (whole percent)
\* (the loop is walked forwards from the initial draw, one day per step)
HistBattery(rng, devices, dev, j) ==
    LET Walk[done \in Nat, battery \in Int] ==
            IF done = j THEN battery
            ELSE LET k == done * devices + (dev - 1)
                     drain == Draw(rng.uniformHist, k)
                 IN  Walk[done + 1, IntCast(Max0(Milli(battery) - drain))]
    IN  Walk[0, Draw(rng.integers60, dev - 1)]

HistRecord(day0, days, devices, rng, i) ==
    LET j == ((i - 1) \div devices) + 1     \* 1 = oldest day (d = days)
        dev == ((i - 1) % devices) + 1
        k == i - 1
        battery == Milli(HistBattery(rng, devices, dev, j))
        errors == Draw(rng.poisson, k)
    IN  [ date          |-> day0 - (days - j + 1),
          device_id     |-> dev,
          temperature_c |-> Round2(Draw(rng.normalT, k)),
          humidity_pct  |-> Round2(Draw(rng.normalH, k)),
          battery_pct   |-> Round1(battery),
          error_count   |-> errors,
          status        |-> derive_status(battery, errors) ]

\* mutant: the generated days run from today - days + 1 through today
GenerateThroughToday(day0, days, devices, rng) ==
    [i \in 1..(days * devices) |-> HistRecord(day0 + 1, days, devices, rng, i)]

generate_initial_history(day0, days, devices, rng) ==
    [i \in 1..(days * devices) |-> HistRecord(day0, days, devices, rng, i)]

----------------------------------------------------------------------------
(* append_today *)

\* pd.read_csv(csv_path) followed by the column look-ups of append_today succeeds
CanReadStore(f) == {"date", "device_id", "battery_pct"} \subseteq f.columns

\* mutant: today's battery repeats the previous one, no drain is subtracted
NewRowNoDrain(rows, fileExists, day0, dev, rng) ==
    LET prev_batt == IF fileExists
                     THEN LastBattery(rows, dev, Draw(rng.integers65, dev - 1))
                     ELSE Milli(Draw(rng.integers70, dev - 1))
        errors == Draw(rng.poisson, dev - 1)
    IN  [ date          |-> day0,
          device_id     |-> dev,
          temperature_c |-> Round2(Draw(rng.normalT, dev - 1)),
          humidity_pct  |-> Round2(Draw(rng.normalH, dev - 1)),
          battery_pct   |-> Round1(prev_batt),
          error_count   |-> errors,
          status        |-> derive_status(prev_batt, errors) ]

\* mutant: the drain starts from the device's last record of an earlier day
NewRowFromEarlierDay(rows, fileExists, day0, dev, rng) ==
    LET earlier == SelectSeq(rows, LAMBDA r : r.date # day0)
        prev_batt == IF fileExists
                     THEN LastBattery(earlier, dev, Draw(rng.integers65, dev - 1))
                     ELSE Milli(Draw(rng.integers70, dev - 1))
        drain == Draw(rng.uniformApp, dev - 1)
        battery == Max0(prev_batt - drain)
        errors == Draw(rng.poisson, dev - 1)
    IN  [ date          |-> day0,
          device_id     |-> dev,
          temperature_c |-> Round2(Draw(rng.normalT, dev - 1)),
          humidity_pct  |-> Round2(Draw(rng.normalH, dev - 1)),
          battery_pct   |-> Round1(battery),
          error_count   |-> errors,
          status        |-> derive_status(battery, errors) ]

NewRow(rows, fileExists, day0, dev, rng) ==
    LET prev_batt == IF fileExists
                     THEN LastBattery(rows, dev, Draw(rng.integers65, dev - 1))
                     ELSE Milli(Draw(rng.integers70, dev - 1))
        drain == Draw(rng.uniformApp, dev - 1)
        battery == Max0(prev_batt - drain)
        errors == Draw(rng.poisson, dev - 1)
    IN  [ date          |-> day0,
          device_id     |-> dev,
          temperature_c |-> Round2(Draw(rng.normalT, dev - 1)),
          humidity_pct  |-> Round2(Draw(rng.normalH, dev - 1)),
          battery_pct   |-> Round1(battery),
          error_count   |-> errors,
          status        |-> derive_status(battery, errors) ]

\* mutant: the rows already stored for today are kept
KeepAllRows(rows, day0) == rows

\* mutant: only the first device's row for today is dropped
DropTodayOfFirstDevice(rows, day0) ==
    SelectSeq(rows, LAMBDA r : r.date # day0 \/ r.device_id # 1)

\* df = df[~((df["date"] == today_str))]
DropToday(rows, day0) == SelectSeq(rows, LAMBDA r : r.date # day0)

\* to_csv writes a float as its decimal text: the digits before and after the point
CsvField(v) == [whole |-> v \div 1000, frac |-> v % 1000]

\* mutant: the text is read back to one decimal only
ParseFieldOneDecimal(t) == t.whole * 1000 + (t.frac \div 100) * 100

\* read_csv parses the decimal text of a float column
ParseField(t) == t.whole * 1000 + t.frac

\* df = pd.read_csv(csv_path): the stored rows as the next run reads them back
ReadCsv(rows) ==
    [i \in 1..Len(rows) |->
        [rows[i] EXCEPT !.temperature_c = ParseField(CsvField(@)),
                        !.humidity_pct  = ParseField(CsvField(@)),
                        !.battery_pct   = ParseField(CsvField(@))]]

\* mutant: only today's rows of the devices 1..devices are replaced
AppendedRowsUpsert(f, day0, devices, rng) ==
    LET new_rows == [dev \in 1..devices |-> NewRow(f.rows, f.exists, day0, dev, rng)]
        kept == SelectSeq(ReadCsv(f.rows),
                          LAMBDA r : r.date # day0 \/ r.device_id > devices)
    IN  SortValues(kept \o new_rows)

AppendedRows(f, day0, devices, rng) ==
    LET new_rows == [dev \in 1..devices |-> NewRow(f.rows, f.exists, day0, dev, rng)]
    IN  SortValues(DropToday(ReadCsv(f.rows), day0) \o new_rows)

----------------------------------------------------------------------------
(* Idle values of the parts a specification does not exercise *)

NoAppend == [day |-> -1, devices |-> 0, n |-> 0]

NoOp == [op |-> "none", ok |-> TRUE]

NoTable == [id |-> -1, columns |-> {}, rows |-> <<>>]

NoCall == [made |-> FALSE, bucket |-> -1, read |-> FALSE, outcome |-> "none",
           ret |-> NoTable]

EmptyCache == [valid |-> FALSE, key |-> -1, value |-> NoTable]

NoEnsure == [wrote |-> FALSE, days |-> 0, devices |-> 0, day |-> -1, at |-> -1]

\* no DataFrame has been read yet
NoReads == [start |-> -1, cached |-> -1]

Threads == 1..MaxThreads

IdleThreads == [t \in Threads |-> [pc |-> "idle", bucket |-> -1, ret |-> NoTable]]

NoBucketReads == [b \in 0..MaxBucket |-> 0]

\* no callback has returned yet
NoView == [cb |-> "none", ok |-> TRUE]

----------------------------------------------------------------------------
(* Simulator operations *)

\* --history-days: none, one, the default, and enough to drain a battery
DefaultHistoryDays == 14

HistoryDayChoices == {0, 1, DefaultHistoryDays, MaxHistoryDays}

\* mutant: ensure_csv writes the history whether or not the file exists
EnsureCsvAlwaysWrites(days, devices, rng) ==
    /\ nops < MaxOps
    /\ nops' = nops + 1
    /\ lastOp' = [op |-> "ensure", ok |-> TRUE]
    /\ LET hist == generate_initial_history(today, days, devices, rng)
       IN  /\ file' = ToCsv(hist, IF hist = <<>> THEN {} ELSE COLUMNS)
           /\ lastEnsure' = [wrote |-> TRUE, days |-> days, devices |-> devices,
                             day |-> today, at |-> nops + 1]
    /\ UNCHANGED <<today, lastAppend, prevAppend>>
    /\ UNCHANGED statusVars
    /\ UNCHANGED loadVars
    /\ UNCHANGED threadVars
    /\ UNCHANGED viewVars

\* ensure_csv(csv_path, days, devices)
EnsureCsv(days, devices, rng) ==
    /\ nops < MaxOps
    /\ nops' = nops + 1
    /\ lastOp' = [op |-> "ensure", ok |-> TRUE]
    /\ IF file.exists
       THEN file' = file /\ UNCHANGED lastEnsure
       ELSE LET hist == generate_initial_history(today, days, devices, rng)
            IN  /\ file' = ToCsv(hist, IF hist = <<>> THEN {} ELSE COLUMNS)
                /\ lastEnsure' = [wrote |-> TRUE, days |-> days, devices |-> devices,
                                  day |-> today, at |-> nops + 1]
    /\ UNCHANGED <<today, lastAppend, prevAppend>>
    /\ UNCHANGED statusVars
    /\ UNCHANGED loadVars
    /\ UNCHANGED threadVars
    /\ UNCHANGED viewVars

\* append_today(csv_path, devices)
AppendToday(devices, rng) ==
    /\ nops < MaxOps
    /\ nops' = nops + 1
    /\ IF file.exists /\ ~CanReadStore(file)
       THEN \* the read raises: nothing is written
            /\ lastOp' = [op |-> "append", ok |-> FALSE]
            /\ UNCHANGED <<file, lastAppend, prevAppend>>
       ELSE /\ file' = ToCsv(AppendedRows(file, today, devices, rng), COLUMNS)
            /\ lastOp' = [op |-> "append", ok |-> TRUE]
            /\ lastAppend' = [day |-> today, devices |-> devices, n |-> lastAppend.n + 1]
            /\ prevAppend' = lastAppend
    /\ UNCHANGED <<today, lastEnsure>>
    /\ UNCHANGED statusVars
    /\ UNCHANGED loadVars
    /\ UNCHANGED threadVars
    /\ UNCHANGED viewVars

\* the calendar day changes between two runs of the simulator
AdvanceDay ==
    /\ nops < MaxOps
    /\ nops' = nops + 1
    /\ today' = today + 1
    /\ UNCHANGED <<file, lastOp, lastAppend, prevAppend, lastEnsure>>
    /\ UNCHANGED statusVars
    /\ UNCHANGED loadVars
    /\ UNCHANGED threadVars
    /\ UNCHANGED viewVars

InitSim ==
    /\ file = NoFile
    /\ today = 0
    /\ nops = 0
    /\ lastOp = NoOp
    /\ lastAppend = NoAppend
    /\ prevAppend = NoAppend
    /\ lastEnsure = NoEnsure
    /\ sBattery = 0 /\ sErrors = 0 /\ sResult = ""
    /\ proc = "init" /\ now = 0 /\ initialDf = NoTable /\ deviceIds = <<>>
    /\ cache = EmptyCache /\ nextId = 1 /\ ncalls = 0
    /\ lastCall = NoCall /\ prevCall = NoCall /\ lastGood = NoTable
    /\ readsInBucket = 0 /\ readAt = NoReads /\ lastAge = 0
    /\ thr = IdleThreads /\ bucketReads = NoBucketReads /\ shown = NoView /\ movieDf = NoTable

NextSim ==
    \/ \E days \in HistoryDayChoices, devices \in 0..MaxDevices, rng \in RngStreams :
          EnsureCsv(days, devices, rng)
    \/ \E devices \in 0..MaxDevices, rng \in RngStreams : AppendToday(devices, rng)
    \/ AdvanceDay

SpecSim == InitSim /\ [][NextSim]_vars

----------------------------------------------------------------------------
(* The command line: main() *)

\* main(): ensure_csv(args.csv, args.history_days, args.devices), then
\* append_today(args.csv, args.devices) when --append-today is given
Main(days, devices, appendFlag, rng) ==
    /\ nops < MaxOps
    /\ nops' = nops + 1
    /\ LET hist == generate_initial_history(today, days, devices, rng)
           ensured == IF file.exists THEN file
                      ELSE ToCsv(hist, IF hist = <<>> THEN {} ELSE COLUMNS)
       IN  /\ lastEnsure' = IF file.exists THEN lastEnsure
                             ELSE [wrote |-> TRUE, days |-> days, devices |-> devices,
                                   day |-> today, at |-> nops + 1]
           /\ IF ~appendFlag
              THEN /\ file' = ensured
                   /\ lastOp' = [op |-> "ensure", ok |-> TRUE]
                   /\ UNCHANGED <<lastAppend, prevAppend>>
              ELSE IF ~CanReadStore(ensured)
              THEN \* append_today raises out of main: the run ends with a traceback
                   /\ file' = ensured
                   /\ lastOp' = [op |-> "append", ok |-> FALSE]
                   /\ UNCHANGED <<lastAppend, prevAppend>>
              ELSE /\ file' = ToCsv(AppendedRows(ensured, today, devices, rng), COLUMNS)
                   /\ lastOp' = [op |-> "append", ok |-> TRUE]
                   /\ lastAppend' = [day |-> today, devices |-> devices,
                                     n |-> lastAppend.n + 1]
                   /\ prevAppend' = lastAppend
    /\ UNCHANGED today
    /\ UNCHANGED statusVars
    /\ UNCHANGED loadVars
    /\ UNCHANGED threadVars
    /\ UNCHANGED viewVars

InitCli ==
    /\ file = NoFile
    /\ today = 0
    /\ nops = 0
    /\ lastOp = NoOp
    /\ lastAppend = NoAppend
    /\ prevAppend = NoAppend
    /\ lastEnsure = NoEnsure
    /\ sBattery = 0 /\ sErrors = 0 /\ sResult = ""
    /\ proc = "init" /\ now = 0 /\ initialDf = NoTable /\ deviceIds = <<>>
    /\ cache = EmptyCache /\ nextId = 1 /\ ncalls = 0
    /\ lastCall = NoCall /\ prevCall = NoCall /\ lastGood = NoTable
    /\ readsInBucket = 0 /\ readAt = NoReads /\ lastAge = 0
    /\ thr = IdleThreads /\ bucketReads = NoBucketReads /\ shown = NoView /\ movieDf = NoTable

NextCli ==
    \/ \E days \in HistoryDayChoices, devices \in 0..MaxDevices, appendFlag \in BOOLEAN,
          rng \in RngStreams :
          Main(days, devices, appendFlag, rng)
    \/ AdvanceDay

SpecCli == InitCli /\ [][NextCli]_vars

----------------------------------------------------------------------------
(* _derive_status as a function of its arguments *)

BatteryProbes ==
    {Milli(-1), 0, Milli(50), Milli(100)} \cup
    {Milli(LowBatteryThreshold) + d : d \in (0 - MaxProbeOffset)..MaxProbeOffset}

DeriveStatus ==
    /\ sResult = ""
    /\ sResult' = derive_status(sBattery, sErrors)
    /\ UNCHANGED <<sBattery, sErrors>>
    /\ UNCHANGED <<file, simVars>>
    /\ UNCHANGED loadVars
    /\ UNCHANGED threadVars
    /\ UNCHANGED viewVars

InitStatus ==
    /\ sBattery \in BatteryProbes
    /\ sErrors \in 0..MaxErrors
    /\ sResult = ""
    /\ file = NoFile /\ today = 0 /\ nops = 0 /\ lastOp = NoOp
    /\ lastAppend = NoAppend /\ prevAppend = NoAppend /\ lastEnsure = NoEnsure
    /\ proc = "init" /\ now = 0 /\ initialDf = NoTable /\ deviceIds = <<>>
    /\ cache = EmptyCache /\ nextId = 1 /\ ncalls = 0
    /\ lastCall = NoCall /\ prevCall = NoCall /\ lastGood = NoTable
    /\ readsInBucket = 0 /\ readAt = NoReads /\ lastAge = 0
    /\ thr = IdleThreads /\ bucketReads = NoBucketReads /\ shown = NoView /\ movieDf = NoTable

NextStatus == DeriveStatus

SpecStatus == InitStatus /\ [][NextStatus]_vars

----------------------------------------------------------------------------
(* The dashboard: start-up checks and the time-bucketed loader (app.py) *)

CACHE_TTL == 30

\* mutant: the status column is not among the columns checked
ExpectedColsWithoutStatus == {"date", "device_id", "temperature_c", "humidity_pct",
                              "battery_pct", "error_count"}

EXPECTED_COLS == {"date", "device_id", "temperature_c", "humidity_pct",
                  "battery_pct", "error_count", "status"}

\* pd.read_csv(CSV_PATH) raises: no such file, or a file with no columns to parse
ReadRaises(f) == ~f.exists \/ f.columns = {}

\* sorted(df['device_id'].unique().tolist())
RECURSIVE SortedIds(_)
SortedIds(ids) ==
    IF ids = {} THEN <<>>
    ELSE LET m == CHOOSE x \in ids : \A y \in ids : x <= y
         IN  <<m>> \o SortedIds(ids \ {m})

\* files other programs leave at CSV_PATH while the dashboard runs
HistoryFile == ToCsv(generate_initial_history(0, 2, 1, RngFast), COLUMNS)

AppendedFile == ToCsv(AppendedRows(HistoryFile, 0, 2, RngSlow), COLUMNS)

SampleFiles ==
    { HistoryFile,
      AppendedFile,
      [exists |-> TRUE, columns |-> COLUMNS \ {"status"}, rows |-> AppendedFile.rows],
      ToCsv(<<>>, COLUMNS),
      ToCsv(<<>>, {}) }

\* module start-up, app.py lines 13-28
Startup ==
    /\ proc = "init"
    /\ IF ReadRaises(file) \/ ~(EXPECTED_COLS \subseteq file.columns) \/ file.rows = <<>>
       THEN \* FileNotFoundError, a read error, ValueError, or DEVICE_IDS[0] on no device
            /\ proc' = "fatal"
            /\ UNCHANGED <<initialDf, deviceIds, lastGood, readAt>>
       ELSE LET df == [id |-> 0, columns |-> file.columns, rows |-> SortValues(file.rows)]
            IN  /\ proc' = "serving"
                /\ initialDf' = df
                /\ deviceIds' = SortedIds(DevicesIn(df.rows))
                /\ lastGood' = df
                /\ readAt' = [start |-> now, cached |-> -1]
    /\ UNCHANGED <<now, cache, nextId, ncalls, lastCall, prevCall, readsInBucket, lastAge>>
    /\ UNCHANGED <<file, simVars>>
    /\ UNCHANGED statusVars
    /\ UNCHANGED threadVars
    /\ UNCHANGED viewVars

\* mutant: the cached entry answers the call whatever its key
CacheHitAnyKey(c, ts_bucket) == c.valid

\* mutant: a cached start-up table is not served, the store is read again
CacheHitUnlessFallback(c, ts_bucket) == c.valid /\ c.key = ts_bucket /\ c.value.id # 0

\* lru_cache(maxsize=1): the call is answered from the cache
CacheHit(c, ts_bucket) == c.valid /\ c.key = ts_bucket

\* load_dataframe(), with _cached_load(ts_bucket) behind its lru_cache
LoadDataframe ==
    /\ proc = "serving"
    /\ ncalls < MaxCalls
    /\ ncalls' = ncalls + 1
    /\ prevCall' = lastCall
    /\ LET ts_bucket == now \div CACHE_TTL
           sameBucket == lastCall.made /\ lastCall.bucket = ts_bucket
           reads == IF sameBucket THEN readsInBucket ELSE 0
       IN  IF CacheHit(cache, ts_bucket)
           THEN /\ lastCall' = [made |-> TRUE, bucket |-> ts_bucket, read |-> FALSE,
                                outcome |-> "hit", ret |-> cache.value]
                /\ readsInBucket' = reads
                /\ lastAge' = now - readAt.cached
                /\ UNCHANGED <<cache, nextId, lastGood, readAt>>
           ELSE /\ readsInBucket' = reads + 1
                /\ IF ReadRaises(file)
                   THEN \* the exception leaves _cached_load: nothing is cached
                        /\ lastCall' = [made |-> TRUE, bucket |-> ts_bucket, read |-> TRUE,
                                        outcome |-> "raised", ret |-> NoTable]
                        /\ UNCHANGED <<cache, nextId, lastGood, readAt, lastAge>>
                   ELSE IF ~(EXPECTED_COLS \subseteq file.columns)
                   THEN /\ lastCall' = [made |-> TRUE, bucket |-> ts_bucket, read |-> TRUE,
                                        outcome |-> "fallback", ret |-> initialDf]
                        /\ cache' = [valid |-> TRUE, key |-> ts_bucket, value |-> initialDf]
                        /\ readAt' = [readAt EXCEPT !.cached = readAt.start]
                        /\ lastAge' = now - readAt.start
                        /\ UNCHANGED <<nextId, lastGood>>
                   ELSE LET df == [id |-> nextId, columns |-> file.columns,
                                   rows |-> SortValues(file.rows)]
                        IN  /\ lastCall' = [made |-> TRUE, bucket |-> ts_bucket,
                                            read |-> TRUE, outcome |-> "reloaded", ret |-> df]
                            /\ cache' = [valid |-> TRUE, key |-> ts_bucket, value |-> df]
                            /\ nextId' = nextId + 1
                            /\ lastGood' = df
                            /\ readAt' = [readAt EXCEPT !.cached = now]
                            /\ lastAge' = 0
    /\ UNCHANGED <<proc, now, initialDf, deviceIds>>
    /\ UNCHANGED <<file, simVars>>
    /\ UNCHANGED statusVars
    /\ UNCHANGED threadVars

\* some callback calls load_dataframe; what it goes on to show is not recorded
AnyCallback ==
    /\ LoadDataframe
    /\ UNCHANGED viewVars

\* another program rewrites the file at CSV_PATH
WriteFile(f) ==
    /\ file # f
    /\ file' = f
    /\ UNCHANGED simVars
    /\ UNCHANGED statusVars
    /\ UNCHANGED loadVars
    /\ UNCHANGED threadVars
    /\ UNCHANGED viewVars

\* the file at CSV_PATH is removed
DeleteFile ==
    /\ file.exists
    /\ file' = NoFile
    /\ UNCHANGED simVars
    /\ UNCHANGED statusVars
    /\ UNCHANGED loadVars
    /\ UNCHANGED threadVars
    /\ UNCHANGED viewVars

TickChoices == {10, CACHE_TTL}

\* the wall clock advances
Tick(dt) ==
    /\ (now + dt) \div CACHE_TTL <= MaxBucket
    /\ now' = now + dt
    /\ UNCHANGED <<proc, initialDf, deviceIds, cache, nextId, ncalls, lastCall,
                   prevCall, lastGood, readsInBucket, readAt, lastAge>>
    /\ UNCHANGED <<file, simVars>>
    /\ UNCHANGED statusVars
    /\ UNCHANGED threadVars
    /\ UNCHANGED viewVars

InitLoad ==
    /\ file \in SampleFiles \cup {NoFile}
    /\ proc = "init" /\ now = 0 /\ initialDf = NoTable /\ deviceIds = <<>>
    /\ cache = EmptyCache /\ nextId = 1 /\ ncalls = 0
    /\ lastCall = NoCall /\ prevCall = NoCall /\ lastGood = NoTable
    /\ readsInBucket = 0 /\ readAt = NoReads /\ lastAge = 0
    /\ thr = IdleThreads /\ bucketReads = NoBucketReads /\ shown = NoView /\ movieDf = NoTable
    /\ today = 0 /\ nops = 0 /\ lastOp = NoOp
    /\ lastAppend = NoAppend /\ prevAppend = NoAppend /\ lastEnsure = NoEnsure
    /\ sBattery = 0 /\ sErrors = 0 /\ sResult = ""

NextLoad ==
    \/ Startup
    \/ AnyCallback
    \/ DeleteFile
    \/ \E f \in SampleFiles : WriteFile(f)
    \/ \E dt \in TickChoices : Tick(dt)

SpecLoad == InitLoad /\ [][NextLoad]_vars

----------------------------------------------------------------------------
(* Callbacks served on several threads: each one calls load_dataframe, and  *)
(* the lru_cache wrapper runs _cached_load outside its lock                 *)

\* load_dataframe() up to the cache look-up of the lru_cache wrapper
ThreadCall(t) ==
    /\ proc = "serving"
    /\ thr[t].pc = "idle"
    /\ ncalls < MaxCalls
    /\ ncalls' = ncalls + 1
    /\ LET ts_bucket == now \div CACHE_TTL
       IN  IF CacheHit(cache, ts_bucket)
           THEN thr' = [thr EXCEPT ![t] = [pc |-> "returned", bucket |-> ts_bucket,
                                           ret |-> cache.value]]
           ELSE thr' = [thr EXCEPT ![t] = [pc |-> "loading", bucket |-> ts_bucket,
                                           ret |-> NoTable]]
    /\ UNCHANGED <<proc, now, initialDf, deviceIds, cache, nextId, lastCall, prevCall,
                   lastGood, readsInBucket, readAt, lastAge, bucketReads>>
    /\ UNCHANGED <<file, simVars>>
    /\ UNCHANGED statusVars
    /\ UNCHANGED viewVars

\* the wrapper leaves an entry stored for the same key during the call in place
StoreResult(c, ts_bucket, result) ==
    IF CacheHit(c, ts_bucket) THEN c
    ELSE [valid |-> TRUE, key |-> ts_bucket, value |-> result]

\* the body of _cached_load(ts_bucket) after a miss, and the wrapper's store
ThreadLoad(t) ==
    /\ thr[t].pc = "loading"
    /\ LET ts_bucket == thr[t].bucket
       IN  /\ bucketReads' = [bucketReads EXCEPT ![ts_bucket] = @ + 1]
           /\ IF ReadRaises(file)
              THEN /\ thr' = [thr EXCEPT ![t] = [pc |-> "raised", bucket |-> ts_bucket,
                                                 ret |-> NoTable]]
                   /\ UNCHANGED <<cache, nextId, lastGood, readAt>>
              ELSE IF ~(EXPECTED_COLS \subseteq file.columns)
              THEN /\ thr' = [thr EXCEPT ![t] = [pc |-> "returned", bucket |-> ts_bucket,
                                                 ret |-> initialDf]]
                   /\ cache' = StoreResult(cache, ts_bucket, initialDf)
                   /\ readAt' = IF CacheHit(cache, ts_bucket) THEN readAt
                                ELSE [readAt EXCEPT !.cached = readAt.start]
                   /\ UNCHANGED <<nextId, lastGood>>
              ELSE LET df == [id |-> nextId, columns |-> file.columns,
                              rows |-> SortValues(file.rows)]
                   IN  /\ thr' = [thr EXCEPT ![t] = [pc |-> "returned",
                                                     bucket |-> ts_bucket, ret |-> df]]
                       /\ cache' = StoreResult(cache, ts_bucket, df)
                       /\ nextId' = nextId + 1
                       /\ lastGood' = df
                       /\ readAt' = IF CacheHit(cache, ts_bucket) THEN readAt
                                    ELSE [readAt EXCEPT !.cached = now]
    /\ UNCHANGED <<proc, now, initialDf, deviceIds, ncalls, lastCall, prevCall,
                   readsInBucket, lastAge>>
    /\ UNCHANGED <<file, simVars>>
    /\ UNCHANGED statusVars
    /\ UNCHANGED viewVars

\* the callback finishes with the table it was given
ThreadDone(t) ==
    /\ thr[t].pc \in {"returned", "raised"}
    /\ thr' = [thr EXCEPT ![t] = [pc |-> "idle", bucket |-> -1, ret |-> NoTable]]
    /\ UNCHANGED bucketReads
    /\ UNCHANGED <<file, simVars>>
    /\ UNCHANGED statusVars
    /\ UNCHANGED viewVars
    /\ UNCHANGED loadVars

\* files that pass every check of the dashboard
ValidFiles == {HistoryFile, AppendedFile}

InitThreads ==
    /\ file \in ValidFiles
    /\ proc = "init" /\ now = 0 /\ initialDf = NoTable /\ deviceIds = <<>>
    /\ cache = EmptyCache /\ nextId = 1 /\ ncalls = 0
    /\ lastCall = NoCall /\ prevCall = NoCall /\ lastGood = NoTable
    /\ readsInBucket = 0 /\ readAt = NoReads /\ lastAge = 0
    /\ thr = IdleThreads /\ bucketReads = NoBucketReads /\ shown = NoView /\ movieDf = NoTable
    /\ today = 0 /\ nops = 0 /\ lastOp = NoOp
    /\ lastAppend = NoAppend /\ prevAppend = NoAppend /\ lastEnsure = NoEnsure
    /\ sBattery = 0 /\ sErrors = 0 /\ sResult = ""

NextThreads ==
    \/ Startup
    \/ \E t \in Threads : ThreadCall(t)
    \/ \E t \in Threads : ThreadLoad(t)
    \/ \E t \in Threads : ThreadDone(t)
    \/ Tick(CACHE_TTL)

SpecThreads == InitThreads /\ [][NextThreads]_vars

----------------------------------------------------------------------------
(* The dashboard callbacks (app.py, section 4).  A frame is a DataFrame in   *)
(* the hands of a callback: alias tells whether it is the very object that   *)
(* load_dataframe returned or a new object.                                  *)

Frame(df) == [alias |-> TRUE, columns |-> df.columns, rows |-> df.rows]

\* fr.sort_values(['device_id', 'date']) returns a new object
SortFrame(fr) ==
    [alias |-> FALSE, columns |-> fr.columns, rows |-> SortValues(fr.rows)]

\* position of rows[i] after a stable sort on date alone
DateRank(rows, i) ==
    1 + Cardinality({j \in 1..Len(rows) :
                        \/ rows[j].date < rows[i].date
                        \/ (j < i /\ rows[j].date = rows[i].date)})

\* mutant: the sort on date is done in place
SortFrameByDateInPlace(fr) ==
    LET ranked == {<<DateRank(fr.rows, i), i>> : i \in 1..Len(fr.rows)}
    IN  [alias |-> fr.alias, columns |-> fr.columns,
         rows |-> [p \in 1..Len(fr.rows) |->
                      fr.rows[(CHOOSE pr \in ranked : pr[1] = p)[2]]]]

\* fr.sort_values('date') returns a new object
SortFrameByDate(fr) ==
    LET ranked == {<<DateRank(fr.rows, i), i>> : i \in 1..Len(fr.rows)}
    IN  [alias |-> FALSE, columns |-> fr.columns,
         rows |-> [p \in 1..Len(fr.rows) |->
                      fr.rows[(CHOOSE pr \in ranked : pr[1] = p)[2]]]]

\* the rows at the indices idx, in their order
PickRows(rows, idx) ==
    [p \in 1..Cardinality(idx) |->
        rows[CHOOSE i \in idx : Cardinality({j \in idx : j <= i}) = p]]

\* fr[mask]: boolean indexing returns a new object with the rows whose mask
\* entry is True
Selected(fr, mask) ==
    [alias |-> FALSE, columns |-> fr.columns,
     rows |-> PickRows(fr.rows, {i \in 1..Len(fr.rows) : mask[i]})]

\* mutant: the first row of every device is taken
HeadPerDevice(fr) ==
    LET first == {i \in 1..Len(fr.rows) :
                    \A j \in 1..Len(fr.rows) :
                        fr.rows[j].device_id = fr.rows[i].device_id => j >= i}
    IN  [alias |-> FALSE, columns |-> fr.columns, rows |-> PickRows(fr.rows, first)]

\* fr.groupby('device_id').tail(1): the last row of every device, in frame order
TailPerDevice(fr) ==
    LET last == {i \in 1..Len(fr.rows) :
                    \A j \in 1..Len(fr.rows) :
                        fr.rows[j].device_id = fr.rows[i].device_id => j <= i}
    IN  [alias |-> FALSE, columns |-> fr.columns, rows |-> PickRows(fr.rows, last)]

\* the object load_dataframe returned, as the callback leaves it
ObjectAfter(df, frames) ==
    IF \E k \in 1..Len(frames) : frames[k].alias
    THEN LET k == CHOOSE i \in 1..Len(frames) :
                     /\ frames[i].alias
                     /\ \A j \in 1..Len(frames) : frames[j].alias => j <= i
         IN  [df EXCEPT !.rows = frames[k].rows, !.columns = frames[k].columns]
    ELSE df

\* STATUS_COLORS.keys()
STATUS_COLORS == {"OK", "WARN", "ERROR", "LOW_BATTERY"}

\* the callback did not return: load_dataframe raised
ViewRaised(cb) == [cb |-> cb, ok |-> FALSE]

\* update_summary(statuses, _n) on the table df
SummaryView(df, statuses) ==
    LET sorted == SortFrameByDate(Frame(df))
        latest == TailPerDevice(sorted)
        total == Len(latest.rows)
        counts == [k \in STATUS_COLORS \cap statuses |->
                     Cardinality({i \in 1..Len(latest.rows) : latest.rows[i].status = k})]
        last_date == IF df.rows = <<>> THEN "NaT"
                     ELSE CHOOSE d \in {df.rows[i].date : i \in 1..Len(df.rows)} :
                              \A i \in 1..Len(df.rows) : df.rows[i].date <= d
    IN  [cb |-> "update_summary", ok |-> TRUE, df |-> df,
         source |-> ObjectAfter(df, <<sorted, latest>>),
         latest |-> latest.rows,
         out |-> [total |-> total, parts |-> counts, last_date |-> last_date]]

RECURSIVE SumOf(_, _)
SumOf(rows, col) ==
    IF rows = <<>> THEN 0 ELSE rows[1][col] + SumOf(Tail(rows), col)

\* f"{latest[col].mean():.1f}" as thousandths: the mean to the nearest tenth
MeanTenth(rows, col) ==
    ((2 * SumOf(rows, col) + 100 * Len(rows)) \div (200 * Len(rows))) * 100

\* update_kpis(_n) on the table df
KpisView(df) ==
    LET sorted == SortFrameByDate(Frame(df))
        latest == TailPerDevice(sorted)
    IN  IF df.rows = <<>>
        THEN [cb |-> "update_kpis", ok |-> TRUE, df |-> df, source |-> df,
              latest |-> <<>>, out |-> <<"-", "-", "-", "-">>]
        ELSE [cb |-> "update_kpis", ok |-> TRUE, df |-> df,
              source |-> ObjectAfter(df, <<sorted, latest>>),
              latest |-> latest.rows,
              out |-> << MeanTenth(latest.rows, "temperature_c"),
                         MeanTenth(latest.rows, "humidity_pct"),
                         MeanTenth(latest.rows, "battery_pct"),
                         SumOf(latest.rows, "error_count") >>]

\* mutant: one bar for every device of the loaded table
OverviewOfLoadedDevices(ids, latest) == latest

\* pd.DataFrame({'device_id': DEVICE_IDS}).merge(latest, on='device_id', how='left'):
\* one row for every start-up device, all-NaN beside the id when latest has
\* none; a new object
MergeLeft(ids, latest) ==
    [alias |-> FALSE, columns |-> latest.columns,
     rows |-> [n \in 1..Len(ids) |->
                 IF \E i \in 1..Len(latest.rows) : latest.rows[i].device_id = ids[n]
                 THEN latest.rows[CHOOSE i \in 1..Len(latest.rows) :
                                      latest.rows[i].device_id = ids[n]]
                 ELSE [device_id |-> ids[n], date |-> "NaT", temperature_c |-> "NaN",
                       humidity_pct |-> "NaN", battery_pct |-> "NaN",
                       error_count |-> "NaN", status |-> "NaN"]]]

\* latest['device_label'] = ...: a column is added to the object fr is
AssignColumn(fr, name) == [fr EXCEPT !.columns = @ \cup {name}]

\* update_battery_overview(statuses, _n) on the table df
OverviewView(df, ids, statuses) ==
    LET sorted == SortFrame(Frame(df))
        latest == TailPerDevice(sorted)
        merged == MergeLeft(ids, latest)
        shownRows == Selected(merged, [i \in 1..Len(merged.rows) |->
                                           merged.rows[i].status \in statuses])
        labelled == AssignColumn(shownRows, "device_label")
    IN  [cb |-> "update_battery_overview", ok |-> TRUE, df |-> df,
         source |-> IF shownRows.rows = <<>>
                    THEN ObjectAfter(df, <<sorted, latest, merged, shownRows>>)
                    ELSE ObjectAfter(df, <<sorted, latest, merged, labelled>>),
         latest |-> latest.rows,
         out |-> [r \in 1..Len(shownRows.rows) |->
                    [device_id |-> shownRows.rows[r].device_id,
                     battery_pct |-> shownRows.rows[r].battery_pct,
                     status |-> shownRows.rows[r].status]]]

\* update_metric_timeseries(device_id, metric, statuses, _n) on the table df
TimeseriesView(df, device_id, metric, statuses) ==
    LET ofDevice == Selected(Frame(df), [i \in 1..Len(df.rows) |->
                                            df.rows[i].device_id = device_id])
        device_df == Selected(ofDevice, [i \in 1..Len(ofDevice.rows) |->
                                            ofDevice.rows[i].status \in statuses])
    IN  [cb |-> "update_metric_timeseries", ok |-> TRUE, df |-> df,
         source |-> ObjectAfter(df, <<ofDevice, device_df>>),
         latest |-> <<>>,
         out |-> [r \in 1..Len(device_df.rows) |->
                    [x |-> device_df.rows[r].date, y |-> device_df.rows[r][metric]]]]

\* the status-filter checklist: everything ticked, one box, nothing
StatusChoices == {STATUS_COLORS, {"OK"}, {}}

\* two of the entries of the metric-select dropdown
MetricChoices == {"temperature_c", "battery_pct"}

update_metric_timeseries(device_id, metric, statuses) ==
    /\ LoadDataframe
    /\ shown' = IF lastCall'.outcome = "raised"
                THEN ViewRaised("update_metric_timeseries")
                ELSE TimeseriesView(lastCall'.ret, device_id, metric, statuses)
    /\ UNCHANGED movieDf

update_battery_overview(statuses) ==
    /\ LoadDataframe
    /\ shown' = IF lastCall'.outcome = "raised"
                THEN ViewRaised("update_battery_overview")
                ELSE OverviewView(lastCall'.ret, deviceIds, statuses)
    /\ UNCHANGED movieDf

update_summary(statuses) ==
    /\ LoadDataframe
    /\ shown' = IF lastCall'.outcome = "raised"
                THEN ViewRaised("update_summary")
                ELSE SummaryView(lastCall'.ret, statuses)
    /\ UNCHANGED movieDf

update_kpis ==
    /\ LoadDataframe
    /\ shown' = IF lastCall'.outcome = "raised"
                THEN ViewRaised("update_kpis")
                ELSE KpisView(lastCall'.ret)
    /\ UNCHANGED movieDf

\* a store the simulator created for two devices
FleetFile == ToCsv(generate_initial_history(0, 2, 2, RngMixed), COLUMNS)

\* files the simulator leaves at CSV_PATH while the dashboard runs: a history of
\* one device, a history of two devices, and a table with no rows
DashFiles == {HistoryFile, FleetFile, ToCsv(<<>>, COLUMNS)}

InitDash ==
    /\ file \in DashFiles
    /\ proc = "init" /\ now = 0 /\ initialDf = NoTable /\ deviceIds = <<>>
    /\ cache = EmptyCache /\ nextId = 1 /\ ncalls = 0
    /\ lastCall = NoCall /\ prevCall = NoCall /\ lastGood = NoTable
    /\ readsInBucket = 0 /\ readAt = NoReads /\ lastAge = 0
    /\ thr = IdleThreads /\ bucketReads = NoBucketReads /\ shown = NoView /\ movieDf = NoTable
    /\ today = 0 /\ nops = 0 /\ lastOp = NoOp
    /\ lastAppend = NoAppend /\ prevAppend = NoAppend /\ lastEnsure = NoEnsure
    /\ sBattery = 0 /\ sErrors = 0 /\ sResult = ""

NextDash ==
    \/ Startup
    \/ \E device_id \in 1..MaxDevices, metric \in MetricChoices, statuses \in StatusChoices :
          update_metric_timeseries(device_id, metric, statuses)
    \/ \E statuses \in StatusChoices : update_battery_overview(statuses)
    \/ \E statuses \in StatusChoices : update_summary(statuses)
    \/ update_kpis
    \/ \E f \in DashFiles : WriteFile(f)
    \/ Tick(CACHE_TTL)

SpecDash == InitDash /\ [][NextDash]_vars

----------------------------------------------------------------------------
(* The movie dashboard (Mini_Project_05/app.py) *)

\* Text is a sequence of one-character strings; a missing cell (NaN) is the
\* one-element sequence below, which no text equals.
NaN == <<"NaN">>

IsNa(v) == v = NaN

\* ord(c) for the characters of the sample data
CodePoint(c) ==
    CASE c = " " -> 32 [] c = "(" -> 40 [] c = "," -> 44 [] c = "." -> 46
      [] c = "A" -> 65 [] c = "B" -> 66
      [] c = "a" -> 97 [] c = "b" -> 98 [] c = "n" -> 110
      [] c = "p" -> 112 [] c = "q" -> 113 [] c = "x" -> 120 [] c = "y" -> 121

\* c.lower()
Lower(c) == CASE c = "A" -> "a" [] c = "B" -> "b" [] OTHER -> c

LowerStr(s) == [i \in 1..Len(s) |-> Lower(s[i])]

\* a < b for Python strings: lexicographic on code points
RECURSIVE StrLess(_, _)
StrLess(a, b) ==
    IF b = <<>> THEN FALSE
    ELSE IF a = <<>> THEN TRUE
    ELSE IF a[1] = b[1] THEN StrLess(Tail(a), Tail(b))
    ELSE CodePoint(a[1]) < CodePoint(b[1])

\* sorted(df["age_rating"].unique()): the order of the rating strings
RATING_ORDER == <<"G", "PG", "PG-13", "R", "Unrated">>

RatingRank(r) == CHOOSE k \in 1..Len(RATING_ORDER) : RATING_ORDER[k] = r

DEFAULT_RATINGS == {"PG", "PG-13", "R"}

MOVIE_COLUMNS ==
    {"movie_title", "age_rating", "tone_str", "themes_str", "tone_count", "theme_count"}

Txt1(a) == <<a>>
Txt2(a, b) == <<a, b>>

\* one line of processed_movies.csv; age_rating "NaN" is an empty cell, and the
\* two counts are cells of text
Movie(title, rating, tones, themes, ntones, nthemes) ==
    [movie_title |-> title, age_rating |-> rating, tone_str |-> tones,
     themes_str |-> themes, tone_count |-> ntones, theme_count |-> nthemes]

\* the lines of a sample processed_movies.csv
RawMovies ==
    << Movie(Txt2("a", "b"), "PG", <<"x", ",", " ", "y">>, Txt1("p"), Txt1("2"), Txt1("1")),
       Movie(Txt2("B", "a"), "PG", Txt1("x"), <<"p", ",", " ", "q">>, Txt1("1"), Txt1("2")),
       Movie(Txt2("a", "."), "R", <<"y", ",", "x", ",", " ">>, Txt1("q"), Txt1("2"), Txt1("1")),
       Movie(Txt1("b"), "R", Txt1("y"), NaN, Txt1("1"), Txt1("0")),
       Movie(Txt2("b", "A"), "PG", <<"n", "a", "n", ",", " ", "x">>, Txt1("q"), Txt1("1"), Txt1("1")),
       Movie(Txt2("B", "."), "PG", <<"y", ",", " ", "n", "a", "n">>, Txt1("p"), Txt1("2"), Txt1("1")),
       Movie(Txt2("A", "b"), "PG", Txt1(" "), Txt1("q"), Txt1("0"), Txt1("1")),
       Movie(Txt1("A"), "PG", Txt1("y"), Txt1("q"), Txt1("1"), Txt1("1")),
       Movie(NaN, "G", Txt1("x"), Txt1("p"), Txt1("1"), Txt1("1")),
       Movie(Txt2("a", "a"), "NaN", Txt1("x"), Txt1("p"), Txt1("1"), Txt1("1")),
       Movie(Txt2("b", "b"), "R", Txt1("x"), Txt1("p"), Txt1("x"), Txt1("1")),
       Movie(Txt2("B", "B"), "R", Txt1("x"), Txt1("p"), Txt1("1"), <<>>) >>

\* pd.to_numeric(cell, errors="coerce")
ToNumeric(cell) ==
    CASE cell = Txt1("0") -> [na |-> FALSE, value |-> 0]
      [] cell = Txt1("1") -> [na |-> FALSE, value |-> 1]
      [] cell = Txt1("2") -> [na |-> FALSE, value |-> 2]
      [] OTHER -> [na |-> TRUE, value |-> 0]

\* fillna("Unrated"), to_numeric and dropna on the rows read from the file
CleanMovies(raw) ==
    LET filled == [i \in 1..Len(raw) |->
                     [raw[i] EXCEPT !.age_rating = IF @ = "NaN" THEN "Unrated" ELSE @,
                                    !.tone_count = ToNumeric(@),
                                    !.theme_count = ToNumeric(@)]]
        kept == SelectSeq(filled, LAMBDA r : ~r.tone_count.na /\ ~r.theme_count.na)
    IN  [i \in 1..Len(kept) |->
            [kept[i] EXCEPT !.tone_count = @.value, !.theme_count = @.value]]

\* the module-level df after the file is loaded
LoadMovies(raw) == [id |-> 1, columns |-> MOVIE_COLUMNS, rows |-> CleanMovies(raw)]

\* the files processed_movies.csv may be: the sample, its first lines, no lines
MovieFiles == {SubSeq(RawMovies, 1, n) : n \in {0, 4, Len(RawMovies)}}

\* `if search_query:` : None and '' are falsy
NoneText == <<"None">>

Truthy(search_query) == search_query # <<>> /\ search_query # NoneText

\* re.compile(pat): an opening parenthesis that is never closed is an error
RegexCompiles(pat) == \A i \in 1..Len(pat) : pat[i] # "("

\* re.search(pat, s, re.IGNORECASE) for patterns of letters and "."
RegexSearch(pat, s) ==
    \E k \in 0..(Len(s) - Len(pat)) :
        \A i \in 1..Len(pat) : pat[i] = "." \/ Lower(pat[i]) = Lower(s[k + i])

\* Series.str.contains(pat, case=False, na=False), one cell
StrContains(cell, pat) == IF IsNa(cell) THEN FALSE ELSE RegexSearch(pat, cell)

\* df[df["age_rating"].isin(selected_ratings)], then the title filter
FilterByRating(fr, selected_ratings) ==
    Selected(fr, [i \in 1..Len(fr.rows) |-> fr.rows[i].age_rating \in selected_ratings])

FilterByTitle(fr, search_query) ==
    IF Truthy(search_query)
    THEN Selected(fr, [i \in 1..Len(fr.rows) |->
                          StrContains(fr.rows[i].movie_title, search_query)])
    ELSE fr

\* the title filter raises when the pattern does not compile
FilterRaises(search_query) == Truthy(search_query) /\ ~RegexCompiles(search_query)

\* sort order of two title cells: NaN sorts last
TitleLess(a, b) ==
    IF IsNa(a) THEN FALSE ELSE IF IsNa(b) THEN TRUE ELSE StrLess(a, b)

\* position of rows[i] after sort_values("movie_title")
TitleRank(rows, i) ==
    1 + Cardinality({j \in 1..Len(rows) :
                        \/ TitleLess(rows[j].movie_title, rows[i].movie_title)
                        \/ (j < i /\ ~TitleLess(rows[i].movie_title, rows[j].movie_title))})

\* fr.sort_values("movie_title") returns a new object
SortByTitle(fr) ==
    LET ranked == {<<TitleRank(fr.rows, i), i>> : i \in 1..Len(fr.rows)}
    IN  [alias |-> FALSE, columns |-> fr.columns,
         rows |-> [p \in 1..Len(fr.rows) |->
                      fr.rows[(CHOOSE pr \in ranked : pr[1] = p)[2]]]]

\* fr.head(n) for n >= 0
HeadRows(fr, n) ==
    [alias |-> FALSE, columns |-> fr.columns,
     rows |-> SubSeq(fr.rows, 1, IF n < Len(fr.rows) THEN n ELSE Len(fr.rows))]

\* update_table_and_summary(selected_ratings, search_query, row_count) on df
TableView(df, selected_ratings, search_query, row_count) ==
    IF FilterRaises(search_query) THEN ViewRaised("update_table_and_summary")
    ELSE
    LET byRating == FilterByRating(Frame(df), selected_ratings)
        filtered == FilterByTitle(byRating, search_query)
        sorted == SortByTitle(filtered)
        limited == HeadRows(sorted, row_count)
    IN  [cb |-> "update_table_and_summary", ok |-> TRUE, df |-> df,
         source |-> ObjectAfter(df, <<byRating, filtered, sorted, limited>>),
         args |-> [selected_ratings |-> selected_ratings,
                   search_query |-> search_query, row_count |-> row_count],
         out |-> [data |-> limited.rows,
                  summary |-> [showing |-> Len(limited.rows),
                               ratings |-> selected_ratings,
                               keyword |-> IF Truthy(search_query)
                                           THEN search_query ELSE <<>>]]]

\* str.split(",")
RECURSIVE SplitComma(_)
SplitComma(s) ==
    LET at == {i \in 1..Len(s) : s[i] = ","}
    IN  IF at = {} THEN <<s>>
        ELSE LET k == CHOOSE i \in at : \A j \in at : i <= j
             IN  <<SubSeq(s, 1, k - 1)>> \o SplitComma(SubSeq(s, k + 1, Len(s)))

\* str.strip()
Strip(s) ==
    LET ink == {i \in 1..Len(s) : s[i] # " "}
    IN  IF ink = {} THEN <<>>
        ELSE SubSeq(s, CHOOSE i \in ink : \A j \in ink : i <= j,
                       CHOOSE i \in ink : \A j \in ink : i >= j)

\* the condition of the list comprehension: i.strip() and i.lower() != "nan"
PieceKept(piece) == Strip(piece) # <<>> /\ LowerStr(piece) # <<"n", "a", "n">>

\* the item rows one table row contributes
ItemsOfRow(row, col) ==
    IF IsNa(row[col]) \/ Strip(row[col]) = <<>> THEN <<>>
    ELSE LET kept == SelectSeq(SplitComma(row[col]), PieceKept)
         IN  [k \in 1..Len(kept) |->
                 [age_rating |-> row.age_rating, label |-> Strip(kept[k])]]

\* item_rows after the loop over filtered.iterrows()
RECURSIVE ItemRows(_, _)
ItemRows(rows, col) ==
    IF rows = <<>> THEN <<>>
    ELSE ItemsOfRow(Head(rows), col) \o ItemRows(Tail(rows), col)

\* number of item rows with this rating and label
ItemCount(items, rating, label) ==
    Cardinality({i \in 1..Len(items) :
                    items[i].age_rating = rating /\ items[i].label = label})

\* groupby(["age_rating", "label"]).size().reset_index(name="count"): one row
\* per pair, in the order of the group keys
GroupSizes(items) ==
    LET groups == {[age_rating |-> items[i].age_rating, label |-> items[i].label,
                    count |-> ItemCount(items, items[i].age_rating, items[i].label)] :
                      i \in 1..Len(items)}
        Before(f, e) ==
            \/ RatingRank(f.age_rating) < RatingRank(e.age_rating)
            \/ (f.age_rating = e.age_rating /\ StrLess(f.label, e.label))
    IN  [p \in 1..Cardinality(groups) |->
            CHOOSE e \in groups : Cardinality({f \in groups : Before(f, e)}) = p - 1]

\* sort_values(["age_rating", "count"], ascending=[True, False]): a stable sort
SortByRatingThenCount(sizes) ==
    LET idx == 1..Len(sizes)
        Before(j, i) ==
            \/ RatingRank(sizes[j].age_rating) < RatingRank(sizes[i].age_rating)
            \/ /\ sizes[j].age_rating = sizes[i].age_rating
               /\ \/ sizes[j].count > sizes[i].count
                  \/ (sizes[j].count = sizes[i].count /\ j < i)
    IN  [p \in idx |->
            sizes[CHOOSE i \in idx : Cardinality({j \in idx : Before(j, i)}) = p - 1]]

\* mutant: the last row of every rating is kept
TailPerRating(sizes) ==
    PickRows(sizes, {i \in 1..Len(sizes) :
                        \A j \in 1..Len(sizes) :
                            sizes[j].age_rating = sizes[i].age_rating => j <= i})

\* groupby("age_rating").head(1): the first row of every rating
HeadPerRating(sizes) ==
    PickRows(sizes, {i \in 1..Len(sizes) :
                        \A j \in 1..Len(sizes) :
                            sizes[j].age_rating = sizes[i].age_rating => j >= i})

\* update_top_chart(selected_ratings, top_type, search_query) on df
TopView(df, selected_ratings, top_type, search_query) ==
    LET args == [selected_ratings |-> selected_ratings, top_type |-> top_type,
                 search_query |-> search_query]
    IN
    IF selected_ratings = {}
    THEN [cb |-> "update_top_chart", ok |-> TRUE, df |-> df, source |-> df,
          args |-> args, figure |-> "blank", didFilter |-> FALSE,
          filtered |-> <<>>, out |-> <<>>]
    ELSE IF FilterRaises(search_query) THEN ViewRaised("update_top_chart")
    ELSE
    LET byRating == FilterByRating(Frame(df), selected_ratings)
        filtered == FilterByTitle(byRating, search_query)
        col == IF top_type = "tone" THEN "tone_str" ELSE "themes_str"
        item_rows == ItemRows(filtered.rows, col)
        top_items == HeadPerRating(SortByRatingThenCount(GroupSizes(item_rows)))
    IN  [cb |-> "update_top_chart", ok |-> TRUE, df |-> df,
         source |-> ObjectAfter(df, <<byRating, filtered>>),
         args |-> args,
         figure |-> IF item_rows = <<>> THEN "nodata" ELSE "bars",
         didFilter |-> TRUE,
         filtered |-> filtered.rows,
         out |-> top_items]

\* update_rating_bar(selected_ratings, search_query) on df
RatingBarView(df, selected_ratings, search_query) ==
    LET args == [selected_ratings |-> selected_ratings, search_query |-> search_query]
    IN
    IF selected_ratings = {}
    THEN [cb |-> "update_rating_bar", ok |-> TRUE, df |-> df, source |-> df,
          args |-> args, figure |-> "blank", out |-> <<>>]
    ELSE IF FilterRaises(search_query) THEN ViewRaised("update_rating_bar")
    ELSE
    LET byRating == FilterByRating(Frame(df), selected_ratings)
        filtered == FilterByTitle(byRating, search_query)
        present == {filtered.rows[i].age_rating : i \in 1..Len(filtered.rows)}
    IN  [cb |-> "update_rating_bar", ok |-> TRUE, df |-> df,
         source |-> ObjectAfter(df, <<byRating, filtered>>),
         args |-> args, figure |-> "bars",
         out |-> [r \in present |->
                    Cardinality({i \in 1..Len(filtered.rows) :
                                    filtered.rows[i].age_rating = r})]]

\* values of the select-ratings dropdown
RatingChoices == {{}, {"PG"}, {"G", "R"}, DEFAULT_RATINGS, {"G", "PG", "R", "Unrated"}}

\* values of the search-title input
SearchChoices ==
    {NoneText, <<>>, Txt1("a"), Txt1("B"), Txt1("."), Txt2("a", "."), Txt2("a", "B"),
     Txt1("(")}

\* values of the row-slider: min=5, max=25, step=5
RowChoices == {5 * k : k \in 1..5}

\* the module-level table as a callback leaves it
MovieTableAfter(view, df) == IF view.ok THEN view.source ELSE df

update_top_chart(selected_ratings, top_type, search_query) ==
    /\ shown' = TopView(movieDf, selected_ratings, top_type, search_query)
    /\ movieDf' = MovieTableAfter(shown', movieDf)
    /\ UNCHANGED <<file, simVars, statusVars, loadVars, threadVars>>

update_rating_bar(selected_ratings, search_query) ==
    /\ shown' = RatingBarView(movieDf, selected_ratings, search_query)
    /\ movieDf' = MovieTableAfter(shown', movieDf)
    /\ UNCHANGED <<file, simVars, statusVars, loadVars, threadVars>>

update_table_and_summary(selected_ratings, search_query, row_count) ==
    /\ shown' = TableView(movieDf, selected_ratings, search_query, row_count)
    /\ movieDf' = MovieTableAfter(shown', movieDf)
    /\ UNCHANGED <<file, simVars, statusVars, loadVars, threadVars>>

\* the movie dashboard after its module body has run on a file that exists
InitMovies ==
    /\ movieDf \in {LoadMovies(f) : f \in MovieFiles}
    /\ shown = NoView
    /\ file = NoFile /\ today = 0 /\ nops = 0 /\ lastOp = NoOp
    /\ lastAppend = NoAppend /\ prevAppend = NoAppend /\ lastEnsure = NoEnsure
    /\ sBattery = 0 /\ sErrors = 0 /\ sResult = ""
    /\ proc = "init" /\ now = 0 /\ initialDf = NoTable /\ deviceIds = <<>>
    /\ cache = EmptyCache /\ nextId = 1 /\ ncalls = 0
    /\ lastCall = NoCall /\ prevCall = NoCall /\ lastGood = NoTable
    /\ readsInBucket = 0 /\ readAt = NoReads /\ lastAge = 0
    /\ thr = IdleThreads /\ bucketReads = NoBucketReads

NextMovies ==
    \/ \E selected_ratings \in RatingChoices, top_type \in {"tone", "theme"},
          search_query \in SearchChoices :
          update_top_chart(selected_ratings, top_type, search_query)
    \/ \E selected_ratings \in RatingChoices, search_query \in SearchChoices :
          update_rating_bar(selected_ratings, search_query)
    \/ \E selected_ratings \in RatingChoices, search_query \in SearchChoices,
          row_count \in RowChoices :
          update_table_and_summary(selected_ratings, search_query, row_count)

SpecMovies == InitMovies /\ [][NextMovies]_vars

----------------------------------------------------------------------------
(* Properties of the store (SpecSim) *)

Rows == file.rows

\* C1: after any sequence of ensure_csv and append_today operations the store
\* holds at most one record for every (device_id, date) pair.
C1_AtMostOneRecordPerKey ==
    \A i, j \in 1..Len(Rows) :
        (Rows[i].device_id = Rows[j].device_id /\ Rows[i].date = Rows[j].date) => i = j

\* C1 witness: append_today has run twice on one day over a backfilled history
C1_Witness ==
    /\ lastOp.op = "append" /\ lastOp.ok
    /\ lastAppend.n >= 2 /\ prevAppend.day = today /\ lastAppend.day = today
    /\ \E i, j \in 1..Len(Rows) : Rows[i].date = today /\ Rows[j].date < today

\* C2: two append_today calls in succession on the same day with the same device
\* count n leave exactly one row (d, today) for every device d in 1..n.
C2_TwiceSameDayOneRowEach ==
    (/\ lastAppend.n >= 2
     /\ lastAppend.day = prevAppend.day
     /\ lastAppend.devices = prevAppend.devices)
    => \A d \in 1..lastAppend.devices : CountKey(Rows, d, lastAppend.day) = 1

\* C2 witness: the second of two same-day calls with the same n >= 2 has returned
C2_Witness ==
    /\ lastOp.op = "append" /\ lastOp.ok
    /\ lastAppend.n >= 2
    /\ lastAppend.day = prevAppend.day
    /\ lastAppend.devices = prevAppend.devices
    /\ lastAppend.devices >= 2
    /\ lastAppend.day = today

\* C3: records are never deleted: a (device_id, date) key present in the store
\* after one operation is present after every later operation.
C3_KeysNeverDeleted == [][Keys(file.rows) \subseteq Keys(file'.rows)]_vars

\* C4: every stored record's status equals derive_status of its own stored
\* battery_pct and error_count.
C4_StatusMatchesStoredFields ==
    \A i \in 1..Len(Rows) :
        Rows[i].status = derive_status(Rows[i].battery_pct, Rows[i].error_count)

\* C6: for every device, battery_pct does not increase from one stored day to a
\* later stored day (a device's first record has no earlier day to compare with).
C6_BatteryNonIncreasing ==
    \A i, j \in 1..Len(Rows) :
        (Rows[i].device_id = Rows[j].device_id /\ Rows[i].date < Rows[j].date)
        => Rows[j].battery_pct <= Rows[i].battery_pct

\* C6 witness: append_today has added today's record of a device that has an
\* older record, with a strictly lower battery
C6_Witness ==
    /\ lastOp.op = "append" /\ lastOp.ok
    /\ \E i, j \in 1..Len(Rows) :
          /\ Rows[i].device_id = Rows[j].device_id
          /\ Rows[i].date < today /\ Rows[j].date = today
          /\ Rows[j].battery_pct < Rows[i].battery_pct

\* the step is an append_today call that returned
AppendReturned == lastAppend'.n = lastAppend.n + 1

\* indices of the rows of device dev dated day
RowsAt(rows, dev, day) ==
    {k \in 1..Len(rows) : rows[k].device_id = dev /\ rows[k].date = day}

\* C13: for every device that already has a record, append_today writes for
\* today battery_pct = max(0, b - drain), where b is the battery_pct of the
\* device's record of greatest date before the call and 0.8 <= drain <= 3.0
\* (up to the rounding to one decimal); and after the call every device
\* 1..devices has exactly one record dated today.
C13_AppendDrainsFromLastRecord ==
    [][AppendReturned =>
         \A dev \in 1..lastAppend'.devices :
            /\ Cardinality(RowsAt(file'.rows, dev, today)) = 1
            /\ \A i \in 1..Len(file.rows) :
                  (/\ file.rows[i].device_id = dev
                   /\ \A j \in 1..Len(file.rows) :
                         file.rows[j].device_id = dev
                         => file.rows[j].date <= file.rows[i].date)
                  => \A k \in RowsAt(file'.rows, dev, today) :
                        LET b == file.rows[i].battery_pct
                            new == file'.rows[k].battery_pct
                        IN  /\ new >= 0
                            /\ new >= (b - 3000) - 50
                            /\ new <= (IF b > 800 THEN b - 800 ELSE 0) + 50
    ]_vars

\* C13 witness: append_today has returned for two devices that both had records
\* of earlier days, and each has its record of today
C13_Witness ==
    /\ lastOp.op = "append" /\ lastOp.ok
    /\ lastAppend.devices = 2 /\ lastAppend.day = today
    /\ \A dev \in 1..2 :
          /\ RowsAt(Rows, dev, today) # {}
          /\ \E k \in 1..Len(Rows) : Rows[k].device_id = dev /\ Rows[k].date < today

\* the store is as generate_initial_history wrote it: ensure_csv created the
\* file and no append_today has returned since
HistoryFresh == lastEnsure.wrote /\ lastAppend.n = 0

\* C14: generate_initial_history(days, devices) yields exactly days * devices
\* records, one for every device 1..devices on every date today - days ..
\* today - 1, none dated today or later, ordered oldest date first.
C14_HistoryShape ==
    HistoryFresh =>
        LET d == lastEnsure.days
            n == lastEnsure.devices
            t == lastEnsure.day
        IN  /\ Len(Rows) = d * n
            /\ \A dev \in 1..n : \A day \in (t - d)..(t - 1) :
                  Cardinality(RowsAt(Rows, dev, day)) = 1
            /\ \A k \in 1..Len(Rows) : Rows[k].date < t
            /\ \A i, j \in 1..Len(Rows) : i < j => Rows[i].date <= Rows[j].date

\* C14 witness: ensure_csv has just written the default 14-day history of two
\* devices
C14_Witness ==
    /\ HistoryFresh /\ lastOp.op = "ensure" /\ lastEnsure.at = nops
    /\ lastEnsure.days = 14 /\ lastEnsure.devices = 2
    /\ Len(Rows) = 28

\* C15: in the generated history, for every device and every two consecutive
\* days the battery drop is between 0.5 and 2.5 (up to the rounding of the two
\* stored values) unless the later value is floored at 0; and the first day's
\* battery is a start value in [60, 100] less such a drain.
C15_HistoryDrainRange ==
    HistoryFresh =>
        /\ \A i, j \in 1..Len(Rows) :
              (/\ Rows[i].device_id = Rows[j].device_id
               /\ Rows[j].date = Rows[i].date + 1)
              => \/ Rows[j].battery_pct = 0
                 \/ LET drop == Rows[i].battery_pct - Rows[j].battery_pct
                    IN  500 - 100 <= drop /\ drop <= 2500 + 100
        /\ \A k \in 1..Len(Rows) :
              Rows[k].date = lastEnsure.day - lastEnsure.days
              => /\ Rows[k].battery_pct >= 60000 - 2500 - 50
                 /\ Rows[k].battery_pct <= 100000 - 500 + 50

\* C16: for a device with no record in the store before the call, append_today
\* writes today's battery as a start value in [65, 100] less a drain in
\* [0.8, 3.0] (up to rounding), never below 0; both when the store file exists
\* without the device and when the file does not exist at all.
C16_UnseenDeviceStartsFresh ==
    [][AppendReturned =>
         \A dev \in 1..lastAppend'.devices :
            (\A i \in 1..Len(file.rows) : file.rows[i].device_id # dev)
            => /\ RowsAt(file'.rows, dev, today) # {}
               /\ \A k \in RowsAt(file'.rows, dev, today) :
                     LET new == file'.rows[k].battery_pct
                     IN  /\ new >= 0
                         /\ new >= 65000 - 3000 - 50
                         /\ new <= 100000 - 800 + 50
    ]_vars

\* C16 witness: the store held a history of device 1 only, and append_today for
\* two devices has written the first record of device 2
C16_Witness ==
    /\ lastOp.op = "append" /\ lastOp.ok
    /\ lastEnsure.wrote /\ lastEnsure.devices = 1 /\ lastEnsure.days >= 1
    /\ lastAppend.n = 1 /\ lastAppend.devices = 2
    /\ \A k \in 1..Len(Rows) : Rows[k].device_id = 2 => Rows[k].date = lastAppend.day
    /\ RowsAt(Rows, 2, lastAppend.day) # {}

\* C17: battery_pct is at least 0 in every record of the store after any
\* sequence of ensure_csv and append_today operations.
C17_BatteryNeverNegative ==
    \A k \in 1..Len(Rows) : Rows[k].battery_pct >= 0

\* C17 witness: append_today has written a record floored at 0 for a device
\* whose history had already drained to 0
C17_Witness ==
    /\ lastOp.op = "append" /\ lastOp.ok /\ lastEnsure.wrote
    /\ \E i, j \in 1..Len(Rows) :
          /\ Rows[i].device_id = Rows[j].device_id
          /\ Rows[i].date < today /\ Rows[i].battery_pct = 0
          /\ Rows[j].date = today /\ Rows[j].battery_pct = 0

\* the rows are in ascending (device_id, date) order
SortedByDeviceThenDate(rows) ==
    \A i, j \in 1..Len(rows) :
        i < j => \/ rows[i].device_id < rows[j].device_id
                 \/ /\ rows[i].device_id = rows[j].device_id
                    /\ rows[i].date <= rows[j].date

\* C18: after every append_today call that returned, the persisted store is
\* ordered by (device_id, date) ascending: each device's records are contiguous
\* and in increasing date order.
C18_StoreSortedAfterAppend ==
    (lastOp.op = "append" /\ lastOp.ok) => SortedByDeviceThenDate(Rows)

\* C18 witness: append_today has returned on a store holding the day-major
\* history of two devices
C18_Witness ==
    /\ lastOp.op = "append" /\ lastOp.ok
    /\ lastEnsure.wrote /\ lastEnsure.devices = 2 /\ lastEnsure.days >= 14
    /\ lastAppend.devices = 2
    /\ Len(Rows) >= 30

\* C24: ensure_csv leaves an existing store unchanged: when the file already
\* exists the call writes nothing, whatever days and devices are passed, so the
\* history is backfilled at most once in the life of a store.
C24_EnsureKeepsExistingStore ==
    /\ [][(file.exists /\ lastOp'.op = "ensure") => file' = file]_vars
    /\ [][lastEnsure.wrote => lastEnsure' = lastEnsure]_vars

\* C24 witness: ensure_csv was the last operation, on a store to which
\* append_today had already added rows
C24_Witness ==
    /\ lastOp.op = "ensure" /\ lastAppend.n >= 1
    /\ \E k \in 1..Len(Rows) : Rows[k].date = lastAppend.day

\* C26: after append_today(store, n) has returned, the device ids that have a
\* record dated today are exactly 1..n: every record dated today that was in
\* the store before the call is dropped, whatever its device id.
C26_TodayDevicesAreOneToN ==
    (lastOp.op = "append" /\ lastOp.ok) =>
        {Rows[k].device_id : k \in {i \in 1..Len(Rows) : Rows[i].date = lastAppend.day}}
            = 1..lastAppend.devices

\* C26 witness: append_today has returned for fewer devices than the call
\* before it on the same day
C26_Witness ==
    /\ lastOp.op = "append" /\ lastOp.ok
    /\ lastAppend.n >= 2 /\ prevAppend.day = lastAppend.day
    /\ lastAppend.devices >= 1 /\ prevAppend.devices > lastAppend.devices

\* C27: append_today changes only records dated today: the records of every
\* other date, of every device, are the same after the call as before it, field
\* by field, and no record of another date is added.
C27_AppendKeepsOtherDays ==
    [][AppendReturned =>
         /\ \A i \in 1..Len(file.rows) :
               file.rows[i].date # today
               => \E k \in 1..Len(file'.rows) : file'.rows[k] = file.rows[i]
         /\ \A k \in 1..Len(file'.rows) :
               file'.rows[k].date # today
               => \E i \in 1..Len(file.rows) : file.rows[i] = file'.rows[k]
    ]_vars

\* C27 witness: append_today for one device has returned on a store that holds
\* records of earlier days of two devices
C27_Witness ==
    /\ lastOp.op = "append" /\ lastOp.ok /\ lastAppend.devices = 1
    /\ lastAppend.day = today
    /\ \E i, j \in 1..Len(Rows) :
          /\ Rows[i].date < today /\ Rows[i].device_id = 2
          /\ Rows[j].date < today /\ Rows[j].device_id = 1

\* C28: an append_today repeated on the same day drains from the row it
\* replaces: for a device that already has a record dated today, the new
\* battery is the replaced battery less a further drain in [0.8, 3.0] (up to
\* rounding), or 0; so after k calls it is lower than after the first call by
\* k - 1 further drains, and the call is not idempotent in the battery value.
C28_RepeatDrainsFromReplacedRow ==
    [][AppendReturned =>
         \A dev \in 1..lastAppend'.devices :
            \A i \in RowsAt(file.rows, dev, today) :
               \A k \in RowsAt(file'.rows, dev, today) :
                  LET old == file.rows[i].battery_pct
                      new == file'.rows[k].battery_pct
                  IN  /\ new >= 0
                      /\ new >= (old - 3000) - 50
                      /\ new <= (IF old > 800 THEN old - 800 ELSE 0) + 50
                      /\ old > 50 => new < old
    ]_vars

\* C28 witness: append_today has returned three times on one day and a device
\* still has charge
C28_Witness ==
    /\ lastOp.op = "append" /\ lastOp.ok
    /\ lastAppend.n >= 3 /\ prevAppend.day = today /\ lastAppend.day = today
    /\ lastAppend.devices >= 1 /\ prevAppend.devices >= 1
    /\ \E k \in RowsAt(Rows, 1, today) : Rows[k].battery_pct > 0

----------------------------------------------------------------------------
(* Properties of the command line (SpecCli) *)

\* C19: a run of the command line on a path with no file backfills
\* history-days * devices records, none dated today; with --append-today it
\* also leaves exactly one record dated today for every device 1..devices, so
\* the store then holds history-days * devices + devices records.
C19_CliBackfillThenAppend ==
    (lastEnsure.wrote /\ lastEnsure.at = nops) =>
        LET d == lastEnsure.days
            n == lastEnsure.devices
        IN  /\ Cardinality({k \in 1..Len(Rows) : Rows[k].date < today}) = d * n
            /\ lastOp.op = "ensure" => Len(Rows) = d * n
            /\ lastOp.op = "append" =>
                  /\ \A dev \in 1..n : Cardinality(RowsAt(Rows, dev, today)) = 1
                  /\ Len(Rows) = d * n + n

----------------------------------------------------------------------------
(* Properties of _derive_status (SpecStatus) *)

\* C5: derive_status returns exactly one of the four statuses, by precedence:
\* LOW_BATTERY if battery < 15, else ERROR if errors >= 3, else WARN if
\* errors >= 1, else OK; battery < 15 gives LOW_BATTERY whatever the errors.
C5_StatusPrecedence ==
    sResult # "" =>
        /\ sResult \in STATUSES
        /\ sResult = "LOW_BATTERY" <=> sBattery < 15000
        /\ sResult = "ERROR" <=> (sBattery >= 15000 /\ sErrors >= 3)
        /\ sResult = "WARN" <=> (sBattery >= 15000 /\ sErrors >= 1 /\ sErrors < 3)
        /\ sResult = "OK" <=> (sBattery >= 15000 /\ sErrors = 0)

\* C5 witness: a low battery together with an error count of at least 3
C5_Witness == sResult = "LOW_BATTERY" /\ sErrors >= 3 /\ sBattery < 15000

----------------------------------------------------------------------------
(* Properties of the loader (SpecLoad) *)

\* C7: when a reload finds expected columns missing, load_dataframe returns the
\* table of the most recent earlier load that passed validation.
C7_FallbackIsLastGood ==
    lastCall.outcome = "fallback" =>
        /\ lastCall.ret.rows = lastGood.rows
        /\ lastCall.ret.columns = lastGood.columns

\* C8: a reload that fails (file missing, unreadable, or lacking expected
\* columns) still returns a previously known-good table and raises nothing.
C8_FailedReloadReturnsTable ==
    (lastCall.made /\ lastCall.read /\ lastCall.outcome # "reloaded")
    => (lastCall.outcome # "raised" /\ lastCall.ret # NoTable)

\* C9: two calls whose clock readings fall in the same bucket return the
\* identical table object, and the second call does not read the store.
C9_SameBucketSameObject ==
    (prevCall.made /\ lastCall.made /\ prevCall.bucket = lastCall.bucket)
    => /\ lastCall.outcome # "raised"
       /\ lastCall.ret = prevCall.ret
       /\ ~lastCall.read

\* C10: in every bucket in which load_dataframe is called, the store is read
\* exactly once, however many calls fall in the bucket.
C10_OneReadPerBucket == lastCall.made => readsInBucket = 1

\* C12 (as stated): the contents returned by any load_dataframe call were read
\* from the store no more than one window (CACHE_TTL seconds) before the call.
C12_StalenessWithinWindow ==
    (lastCall.made /\ lastCall.ret # NoTable) => lastAge <= 30

\* C12 (amended): the contents returned by a load_dataframe call were read from
\* the store no more than one window before the call, unless the call is
\* answered with the start-up table by the missing-columns fallback.
C12_StalenessWithinWindowUnlessFallback ==
    (lastCall.made /\ lastCall.ret # NoTable /\ lastCall.ret # initialDf)
    => (0 <= lastAge /\ lastAge <= 30)

\* C12 witness: a call answered from the cache some seconds after the reload
C12_Witness ==
    /\ lastCall.made /\ lastCall.outcome = "hit"
    /\ lastCall.ret # NoTable /\ lastCall.ret # initialDf
    /\ lastAge > 0

\* the file at CSV_PATH exists and has the seven expected columns
StoreHasSevenColumns ==
    /\ file.exists
    /\ {"date", "device_id", "temperature_c", "humidity_pct", "battery_pct",
        "error_count", "status"} \subseteq file.columns

\* C20: the dashboard process starts serving only if, at start-up, the file
\* exists and contains all seven expected columns; with a missing file or a
\* missing column start-up ends in a fatal error, and no callback runs
\* load_dataframe in a process that is not serving.
C20_ServingOnlyAfterValidStartup ==
    /\ [][(proc = "init" /\ proc' = "serving") => StoreHasSevenColumns]_vars
    /\ [][(proc = "init" /\ proc' # "init" /\ ~StoreHasSevenColumns)
           => proc' = "fatal"]_vars
    /\ [](proc # "serving" => (ncalls = 0 /\ ~lastCall.made))
    /\ [][proc = "fatal" => proc' = "fatal"]_vars

\* C20 witness: start-up has ended in the fatal state on a file that exists but
\* lacks an expected column
C20_Witness ==
    /\ proc = "fatal" /\ ncalls = 0
    /\ file.exists /\ file.rows # <<>> /\ "status" \notin file.columns

\* C29: a reload that fails column validation returns the table loaded at
\* process start-up and caches it under the new bucket; every later call in
\* the same bucket returns the start-up table without reading the store, even
\* if the file has become valid again; the store is read again once the bucket
\* changes.
C29_FallbackIsStartupTableCached ==
    /\ lastCall.outcome = "fallback"
       => /\ lastCall.ret = initialDf
          /\ cache = [valid |-> TRUE, key |-> lastCall.bucket, value |-> initialDf]
    /\ (/\ prevCall.made /\ lastCall.made
        /\ prevCall.bucket = lastCall.bucket
        /\ prevCall.outcome \in {"fallback", "hit"} /\ prevCall.ret = initialDf)
       => (lastCall.outcome = "hit" /\ ~lastCall.read /\ lastCall.ret = initialDf)
    /\ (prevCall.made /\ lastCall.made /\ prevCall.bucket # lastCall.bucket)
       => lastCall.read

\* C29 witness: a call fell back, the file was then rewritten with all its
\* columns, and the next call in the same bucket was answered from the cache
C29_Witness ==
    /\ prevCall.outcome = "fallback" /\ lastCall.outcome = "hit"
    /\ prevCall.bucket = lastCall.bucket
    /\ StoreHasSevenColumns /\ file.rows # <<>>
    /\ lastCall.ret = initialDf /\ lastAge > 0

----------------------------------------------------------------------------
(* Properties of the dashboard callbacks (SpecDash) *)

\* C21: no callback mutates the table it works from: when a callback returns,
\* the object load_dataframe gave it (the table cached for the bucket) has the
\* rows, in the order, and the columns it had when the callback received it.
C21_CallbacksLeaveSourceUnchanged ==
    (shown.cb # "none" /\ shown.ok) =>
        /\ shown.source.rows = shown.df.rows
        /\ shown.source.columns = shown.df.columns
        /\ shown.source.id = shown.df.id

\* C21 witness: update_battery_overview has drawn bars, so it has added its
\* device_label column to the frame it plots, from a table of several rows
C21_Witness ==
    /\ shown.cb = "update_battery_overview" /\ shown.ok
    /\ shown.out # <<>>
    /\ Len(shown.df.rows) >= 3
    /\ shown.df = lastCall.ret /\ cache.value = shown.df

\* C22: the latest-per-device subset of update_summary and update_kpis holds,
\* for every device_id of the loaded table, exactly one record, a record of the
\* table whose date is the greatest of that device; the device total, the
\* status counts, the means and the error sum are computed over this subset.
C22_LatestPerDevice ==
    (shown.cb \in {"update_summary", "update_kpis"} /\ shown.ok) =>
        LET rows == shown.df.rows
            latest == shown.latest
        IN  /\ DevicesIn(latest) = DevicesIn(rows)
            /\ \A d \in DevicesIn(rows) :
                  Cardinality({i \in 1..Len(latest) : latest[i].device_id = d}) = 1
            /\ \A i \in 1..Len(latest) :
                  /\ \E k \in 1..Len(rows) : rows[k] = latest[i]
                  /\ \A k \in 1..Len(rows) :
                        rows[k].device_id = latest[i].device_id
                        => rows[k].date <= latest[i].date
            /\ shown.cb = "update_summary" =>
                  /\ shown.out.total = Cardinality(DevicesIn(rows))
                  /\ \A k \in DOMAIN shown.out.parts :
                        shown.out.parts[k] =
                            Cardinality({i \in 1..Len(latest) : latest[i].status = k})
            /\ (shown.cb = "update_kpis" /\ rows # <<>>) =>
                  /\ shown.out[4] = SumOf(latest, "error_count")
                  /\ \A c \in 1..3 :
                        LET col == <<"temperature_c", "humidity_pct", "battery_pct">>[c]
                            sum == SumOf(latest, col)
                        IN  /\ 2 * (shown.out[c] * Len(latest) - sum) <= 100 * Len(latest)
                            /\ 2 * (sum - shown.out[c] * Len(latest)) <= 100 * Len(latest)

\* C22 witness: update_kpis has returned on a table of two devices, one of them
\* with records of several days
C22_Witness ==
    /\ shown.cb = "update_kpis" /\ shown.ok
    /\ Len(shown.latest) = 2 /\ Len(shown.df.rows) >= 4

\* C30: the devices shown by update_battery_overview are among the device ids
\* of the file read at start-up (DEVICE_IDS), whatever a later reload brings,
\* while update_summary counts every device of the table it loaded.
C30_OverviewShowsStartupDevicesOnly ==
    /\ (shown.cb = "update_battery_overview" /\ shown.ok)
       => DevicesIn(shown.out) \subseteq {deviceIds[n] : n \in 1..Len(deviceIds)}
    /\ (shown.cb = "update_summary" /\ shown.ok)
       => shown.out.total = Cardinality(DevicesIn(shown.df.rows))

\* C30 witness: update_battery_overview has drawn bars from a reloaded table
\* that holds a device absent from the start-up file
C30_Witness ==
    /\ shown.cb = "update_battery_overview" /\ shown.ok
    /\ shown.out # <<>>
    /\ \E d \in DevicesIn(shown.df.rows) : \A n \in 1..Len(deviceIds) : deviceIds[n] # d

----------------------------------------------------------------------------
(* Properties of the movie dashboard (SpecMovies) *)

\* C23: update_table_and_summary returns a row-filtered subset: at most
\* row-limit rows, each with age_rating in the selected set and, when the search
\* text is non-empty, with a title that contains the text as a case-insensitive
\* substring; the rows are the first row-limit matching rows in ascending title
\* order, and the summary reports the number of returned rows.
C23_TableIsFilteredSubset ==
    (shown.cb = "update_table_and_summary" /\ shown.ok) =>
        LET a == shown.args
            data == shown.out.data
            rows == shown.df.rows
            ContainsText(cell, text) ==
                /\ ~IsNa(cell)
                /\ \E k \in 0..(Len(cell) - Len(text)) :
                      \A i \in 1..Len(text) : Lower(text[i]) = Lower(cell[k + i])
            Matches(r) ==
                /\ r.age_rating \in a.selected_ratings
                /\ Truthy(a.search_query) => ContainsText(r.movie_title, a.search_query)
            matching == {k \in 1..Len(rows) : Matches(rows[k])}
        IN  /\ Len(data) <= a.row_count
            /\ \A i \in 1..Len(data) :
                  Matches(data[i]) /\ \E k \in 1..Len(rows) : rows[k] = data[i]
            /\ Len(data) = IF Cardinality(matching) < a.row_count
                           THEN Cardinality(matching) ELSE a.row_count
            /\ \A i \in 1..Len(data) : \A j \in 1..Len(data) :
                  i < j => ~TitleLess(data[j].movie_title, data[i].movie_title)
            /\ \A k \in matching :
                  (\A i \in 1..Len(data) : data[i] # rows[k])
                  => \A i \in 1..Len(data) :
                        ~TitleLess(rows[k].movie_title, data[i].movie_title)
            /\ shown.out.summary.showing = Len(data)

\* C25: update_top_chart shows at most one label per selected age rating; for
\* every rating with at least one tone/theme item among the filtered rows the
\* shown label has the greatest occurrence count of that rating; with an empty
\* rating selection it returns the blank figure without filtering.
C25_TopChartShowsOneMaximalLabel ==
    (shown.cb = "update_top_chart" /\ shown.ok) =>
        LET a == shown.args
            out == shown.out
            col == IF a.top_type = "tone" THEN "tone_str" ELSE "themes_str"
            items == ItemRows(shown.filtered, col)
        IN  IF a.selected_ratings = {}
            THEN shown.figure = "blank" /\ ~shown.didFilter /\ out = <<>>
            ELSE /\ shown.didFilter
                 /\ \A i \in 1..Len(out) :
                       /\ out[i].age_rating \in a.selected_ratings
                       /\ \A j \in 1..Len(out) :
                             out[j].age_rating = out[i].age_rating => j = i
                 /\ \A k \in 1..Len(items) :
                       \E i \in 1..Len(out) :
                           /\ out[i].age_rating = items[k].age_rating
                           /\ out[i].count =
                                 ItemCount(items, out[i].age_rating, out[i].label)
                           /\ out[i].count >=
                                 ItemCount(items, items[k].age_rating, items[k].label)
                           /\ out[i].count > 0

\* C25 witness: the chart shows bars for two ratings, and one of the ratings
\* has a second label with fewer occurrences than the label shown
C25_Witness ==
    /\ shown.cb = "update_top_chart" /\ shown.ok
    /\ shown.figure = "bars" /\ Len(shown.out) >= 2
    /\ LET col == IF shown.args.top_type = "tone" THEN "tone_str" ELSE "themes_str"
           items == ItemRows(shown.filtered, col)
       IN  \E k \in 1..Len(items) : \E i \in 1..Len(shown.out) :
               /\ items[k].age_rating = shown.out[i].age_rating
               /\ items[k].label # shown.out[i].label
               /\ ItemCount(items, items[k].age_rating, items[k].label)
                      < shown.out[i].count

----------------------------------------------------------------------------
(* Properties of concurrent callers (SpecThreads) *)

\* C11: callers of load_dataframe that run concurrently in one bucket all get
\* the same table object, and the store is read at most once for that bucket,
\* whatever the interleaving of the callers.
C11_ConcurrentCallersShareOneLoad ==
    /\ \A t, u \in Threads :
          (thr[t].pc = "returned" /\ thr[u].pc = "returned"
           /\ thr[t].bucket = thr[u].bucket) => thr[t].ret = thr[u].ret
    /\ \A b \in DOMAIN bucketReads : bucketReads[b] <= 1

====
